---- MODULE Spec2Model ----
(***************************************************************************)
(* Model of the LangChainPlayground scripts:                               *)
(*   - Tools/WebSearch/websearch.py : filter_garbage, _summarize_content,  *)
(*     process_response                                                    *)
(*   - TextToSQL/react.py : the reversed message trace of                  *)
(*     text_to_sql_react                                                   *)
(* Strings are sequences of Unicode codepoints.  An optional value (a      *)
(* Python value that may be None) is a sequence of length at most one:     *)
(* None is <<>> and a present value v is <<v>>.                            *)
(***************************************************************************)
EXTENDS Integers, Sequences, FiniteSets, TLC

VARIABLES
    \* filter_garbage applied once and twice to an input string
    text, cleaned, recleaned, cpc,
    \* process_response
    response, args, provided, beforeSummarize, generatorCalls, content, pc,
    \* text_to_sql_react
    messages, nextCallId, report, spc

cleanVars == <<text, cleaned, recleaned, cpc>>
webVars == <<response, args, provided, beforeSummarize, generatorCalls, content, pc>>
sqlVars == <<messages, nextCallId, report, spc>>
vars == <<cleanVars, webVars, sqlVars>>

None == <<>>
Some(v) == <<v>>

(***************************************************************************)
(* Bounds                                                                  *)
(***************************************************************************)
MaxLen == 4
MaxResults == 2
MaxRounds == 2

\* The strings of length at most n over the characters cs
RECURSIVE StringsUpTo(_, _)
StringsUpTo(cs, n) ==
    IF n = 0 THEN {<<>>}
    ELSE LET shorter == StringsUpTo(cs, n - 1)
         IN shorter \cup {Append(s, c) : s \in shorter, c \in cs}

\* BEL, tab, newline, carriage return, space, "a", a CJK ideograph, an emoji
Alphabet == {7, 9, 10, 13, 32, 97, 20013, 128512}

\* The codepoints at and next to every edge of the allow-list's ranges
EdgeChars ==
    {0, 8, 11, 12, 14, 31, 32, 126, 127, 19967, 19968, 40959, 40960,
     9727, 9728, 9983, 9984, 10175, 10176, 127743, 127744, 129535, 129536}

Inputs == StringsUpTo(Alphabet, MaxLen) \cup {<<c>> : c \in EdgeChars}

(***************************************************************************)
(* filter_garbage                                                          *)
(***************************************************************************)
PRINTABLE_ASCII(c) == 32 <= c /\ c <= 126

CONTROL_CHARS == {10, 9, 13}

\* Mutant: the ideograph range without its first codepoint
CHINESE_open(c) == 19968 < c /\ c <= 40959

CHINESE(c) == 19968 <= c /\ c <= 40959

MISC_SYMBOLS(c) == 9728 <= c /\ c <= 9983

DINGBATS(c) == 9984 <= c /\ c <= 10175

EMOJIS(c) == 127744 <= c /\ c <= 129535

is_valid_char(c) ==
    \/ PRINTABLE_ASCII(c)
    \/ c \in CONTROL_CHARS
    \/ CHINESE(c)
    \/ MISC_SYMBOLS(c)
    \/ DINGBATS(c)
    \/ EMOJIS(c)

\* "".join(char for char in text if is_valid_char(char))
KeepValid(s) == SelectSeq(s, is_valid_char)

\* The length of the run of character c that starts at position i of s
RECURSIVE RunFrom(_, _, _)
RunFrom(s, i, c) ==
    IF i > Len(s) \/ s[i] # c THEN 0 ELSE 1 + RunFrom(s, i + 1, c)

\* re.sub of the pattern c{least,} by repl: the leftmost match is greedy, so it
\* takes the whole run; a shorter run matches nowhere and is copied.
RECURSIVE SubRuns(_, _, _, _, _)
SubRuns(s, i, c, least, repl) ==
    IF i > Len(s) THEN <<>>
    ELSE LET n == RunFrom(s, i, c)
         IN IF n >= least
            THEN repl \o SubRuns(s, i + n, c, least, repl)
            ELSE <<s[i]>> \o SubRuns(s, i + 1, c, least, repl)

\* Mutant: a run of newlines collapsed to one newline
CollapseNewlines_single(s) == SubRuns(s, 1, 10, 3, <<10>>)

\* re.sub(r"\n{3,}", r"\n\n", cleaned_text)
CollapseNewlines(s) == SubRuns(s, 1, 10, 3, <<10, 10>>)

\* re.sub(r" {2,}", " ", cleaned_text)
CollapseSpaces(s) == SubRuns(s, 1, 32, 2, <<32>>)

\* Mutant: the collapses run before the characters are filtered
filter_garbage_late(s) == KeepValid(CollapseSpaces(CollapseNewlines(s)))

filter_garbage(s) == CollapseSpaces(CollapseNewlines(KeepValid(s)))

CleanIdle ==
    /\ text = <<>>
    /\ cleaned = <<>>
    /\ recleaned = <<>>
    /\ cpc = "idle"

CleanInit ==
    /\ text \in Inputs
    /\ cleaned = <<>>
    /\ recleaned = <<>>
    /\ cpc = "input"

\* cleaned_text = filter_garbage(text)
Clean ==
    /\ cpc = "input"
    /\ cleaned' = filter_garbage(text)
    /\ cpc' = "cleaned"
    /\ UNCHANGED <<text, recleaned>>

\* filter_garbage applied to its own output
CleanAgain ==
    /\ cpc = "cleaned"
    /\ recleaned' = filter_garbage(cleaned)
    /\ cpc' = "recleaned"
    /\ UNCHANGED <<text, cleaned>>

WebIdle ==
    /\ response = <<>>
    /\ args = <<>>
    /\ provided = <<>>
    /\ beforeSummarize = <<>>
    /\ generatorCalls = <<>>
    /\ content = <<>>
    /\ pc = "idle"

SqlIdle ==
    /\ messages = <<>>
    /\ nextCallId = 0
    /\ report = <<>>
    /\ spc = "idle"

InitClean == CleanInit /\ WebIdle /\ SqlIdle

NextClean ==
    \/ Clean /\ UNCHANGED <<webVars, sqlVars>>
    \/ CleanAgain /\ UNCHANGED <<webVars, sqlVars>>

SpecClean == InitClean /\ [][NextClean]_vars

(***************************************************************************)
(* Claims about filter_garbage, checked under SpecClean                    *)
(***************************************************************************)
\* The allow-list as the specification states it
AllowList ==
    (32..126) \cup {10, 9, 13} \cup (19968..40959) \cup (9728..9983)
        \cup (9984..10175) \cup (127744..129535)

AllowListed(c) == c \in AllowList

NotBlank(c) == c # 32 /\ c # 10

AllowListedNotBlank(c) == AllowListed(c) /\ NotBlank(c)

Chars(s) == {s[i] : i \in DOMAIN s}

\* The run-length encoding of s from position i: <<character, length>> pairs
RECURSIVE Runs(_, _)
Runs(s, i) ==
    IF i > Len(s) THEN <<>>
    ELSE LET n == RunFrom(s, i, s[i])
         IN <<(<<s[i], n>>)>> \o Runs(s, i + n)

Least(a, b) == IF a <= b THEN a ELSE b

\* The longest run of character c that the output may keep
RunCap(c, n) == IF c = 10 THEN Least(n, 2) ELSE IF c = 32 THEN Least(n, 1) ELSE n

CappedRuns(s) ==
    LET r == Runs(s, 1)
    IN [k \in DOMAIN r |-> <<r[k][1], RunCap(r[k][1], r[k][2])>>]

HasRun(s, c, n) == \E i \in DOMAIN s : RunFrom(s, i, c) >= n

\* C3: filter_garbage is idempotent: cleaning its own output changes nothing.
CleanIdempotent == cpc = "recleaned" => recleaned = cleaned

\* C3 witness: a second cleaning of a string whose first cleaning both removed
\* characters and collapsed a run.
CleanIdempotentWitness ==
    /\ cpc = "recleaned"
    /\ KeepValid(text) # text
    /\ cleaned # KeepValid(text)

\* C4: the output holds only allow-listed characters, and the allow-listed
\* characters other than spaces and newlines are all kept, in their order.
CleanAllowList ==
    cpc # "input" =>
        /\ \A i \in DOMAIN cleaned : AllowListed(cleaned[i])
        /\ SelectSeq(cleaned, NotBlank) = SelectSeq(text, AllowListedNotBlank)

\* C4 witness: a BEL and a CJK ideograph went in, only the ideograph came out.
CleanAllowListWitness ==
    /\ cpc = "cleaned"
    /\ 7 \in Chars(text)
    /\ 20013 \in Chars(text)
    /\ 20013 \in Chars(cleaned)
    /\ 7 \notin Chars(cleaned)

\* C5: every run of 3 or more newlines left by the character filter becomes
\* two newlines and every run of 2 or more spaces one space; all other runs
\* are kept, so the output has no 3 newlines and no 2 spaces in a row.
CleanCollapses ==
    cpc # "input" =>
        /\ ~HasRun(cleaned, 10, 3)
        /\ ~HasRun(cleaned, 32, 2)
        /\ Runs(cleaned, 1) = CappedRuns(SelectSeq(text, AllowListed))

\* C5 witness: three newlines that are adjacent only once the BEL between
\* them is removed come out as two.
CleanCollapsesWitness ==
    /\ cpc = "cleaned"
    /\ text = <<10, 10, 7, 10>>
    /\ cleaned = <<10, 10>>

(***************************************************************************)
(* process_response and _summarize_content                                 *)
(***************************************************************************)
\* Scores and thresholds in tenths: 0.3, 0.5, 0.9
Scores == {3, 5, 9}

Thresholds == {5, 9}

\* "a<BEL>  b": cleaning removes the BEL and collapses the spaces
DirtyContent == <<97, 7, 32, 32, 98>>

\* "x\n\n\n\ny" and "z" followed by a CJK ideograph
RawContents == {<<120, 10, 10, 10, 10, 121>>, <<122, 20013>>}

\* "u" followed by the digit of the provider's rank
Url(i) == <<117, 48 + i>>

\* "q"
QueryText == <<113>>

\* "Paris"
AnswerText == <<80, 97, 114, 105, 115>>

\* "None", what an f-string renders for None
NoneText == <<78, 111, 110, 101>>

ResultLists ==
    UNION {[1..n -> [score : Scores,
                     content : {None, Some(DirtyContent)},
                     raw_content : {None} \cup {Some(r) : r \in RawContents}]]
           : n \in 0..MaxResults}

\* The provider's response: the url is the one field that names the result
Responses ==
    {[query |-> QueryText,
      results |-> [i \in DOMAIN rs |->
                      [url |-> Url(i), score |-> rs[i].score,
                       content |-> rs[i].content,
                       raw_content |-> rs[i].raw_content]],
      answer |-> a] : rs \in ResultLists, a \in {None, Some(AnswerText)}}

SearchArgs ==
    [filter_score : Thresholds, summarize_content : BOOLEAN,
     suggested_answer : BOOLEAN]

\* str() of a value inside an f-string
Str(opt) == IF opt = None THEN NoneText ELSE opt[1]

\* str() of a score given in tenths: "0.3", "0.5", "0.9", "1.0"
ScoreText(n) == IF n >= 10 THEN <<49, 46, 48>> ELSE <<48, 46, 48 + n>>

\* The two kinds of piece of an f-string: its literal text and a formatted value
Lit(t) == [lit |-> t, val |-> <<>>]
Val(v) == [lit |-> "", val |-> v]

\* Mutant: a result at the threshold is dropped
KeepScore_strict(result, t) == result.score > t

\* result["score"] >= args.filter_score
KeepScore(result, t) == result.score >= t

\* [result for result in response["results"] if result["score"] >= args.filter_score]
RECURSIVE FilterResults(_, _)
FilterResults(results, t) ==
    IF results = <<>> THEN <<>>
    ELSE (IF KeepScore(Head(results), t) THEN <<Head(results)>> ELSE <<>>)
             \o FilterResults(Tail(results), t)

\* if result[field] is not None: result[field] = filter_garbage(result[field])
CleanField(opt) == IF opt # None THEN Some(filter_garbage(opt[1])) ELSE opt

CleanResult(result) ==
    [result EXCEPT !.content = CleanField(result.content),
                   !.raw_content = CleanField(result.raw_content)]

\* The text-generation collaborator: the prompt template formats its one
\* variable with str(), and the model (temperature 0) answers "S:" + input.
Generator(input) == <<83, 58>> \o Str(input)

raw_content_list(results) == [i \in DOMAIN results |-> results[i].raw_content]

none_idx(raws) == {i \in DOMAIN raws : raws[i] = None}

Reverse(s) == [i \in DOMAIN s |-> s[Len(s) + 1 - i]]

\* Mutant: a batch that returns its outputs in the opposite order
batch_reversed(inputs) == Reverse([i \in DOMAIN inputs |-> Generator(inputs[i])])

\* chain.batch(inputs): one generator call for every element, outputs in order
batch(inputs) == [i \in DOMAIN inputs |-> Generator(inputs[i])]

\* Mutant: the outputs are taken for every index, absent raw content or not
content_list_all(summarized, none) ==
    [i \in DOMAIN summarized |-> Some(summarized[i])]

\* [None if i in none_idx else msg.content for i, msg in enumerate(...)]
content_list(summarized, none) ==
    [i \in DOMAIN summarized |-> IF i \in none THEN None ELSE Some(summarized[i])]

\* for i, result in enumerate(...): if content_list[i] is not None: ...
summarized_results(results) ==
    LET raws == raw_content_list(results)
        contents == content_list(batch(raws), none_idx(raws))
    IN [i \in DOMAIN results |->
           IF contents[i] # None
           THEN [results[i] EXCEPT !.content = contents[i]]
           ELSE results[i]]

\* The three f-strings of one result
SourceLines(result) ==
    << <<Lit("Relevance Score: "), Val(ScoreText(result.score))>>,
       <<Lit("URL: "), Val(result.url)>>,
       <<Lit("Content: "), Val(Str(result.content)), Lit("\n")>> >>

RECURSIVE AllSourceLines(_)
AllSourceLines(results) ==
    IF results = <<>> THEN <<>>
    ELSE SourceLines(Head(results)) \o AllSourceLines(Tail(results))

\* Mutant: the sources are listed last result first
ResultOrder_reversed(results) == Reverse(results)

\* for result in response["results"]
ResultOrder(results) == results

\* Mutant: the suggested answer is appended whatever the option says
SuggestedLines_always(resp, a) ==
    << <<Lit("Suggested Answer: "), Val(Str(resp.answer))>> >>

\* if args.suggested_answer: content.append(f"Suggested Answer: ...")
SuggestedLines(resp, a) ==
    IF a.suggested_answer
    THEN << <<Lit("Suggested Answer: "), Val(Str(resp.answer))>> >>
    ELSE <<>>

\* "\n".join(lines)
RECURSIVE Join(_)
Join(lines) ==
    IF lines = <<>> THEN <<>>
    ELSE IF Len(lines) = 1 THEN Head(lines)
    ELSE Head(lines) \o <<Lit("\n")>> \o Join(Tail(lines))

\* The list content of process_response, joined
Formatted(resp, a) ==
    Join(<< <<Lit("Query: "), Val(resp.query), Lit("\n")>>,
            <<Lit("Sources:\n")>> >>
         \o AllSourceLines(ResultOrder(resp.results))
         \o SuggestedLines(resp, a))

WebInit ==
    /\ provided \in Responses
    /\ response = provided
    /\ args \in SearchArgs
    /\ beforeSummarize = <<>>
    /\ generatorCalls = <<>>
    /\ content = <<>>
    /\ pc = "start"

\* line 100
Filter ==
    /\ pc = "start"
    /\ response' = [response EXCEPT
                       !.results = FilterResults(response.results, args.filter_score)]
    /\ pc' = "filtered"
    /\ UNCHANGED <<args, provided, beforeSummarize, generatorCalls, content>>

\* lines 102-106
CleanResults ==
    /\ pc = "filtered"
    /\ response' = [response EXCEPT
                       !.results = [i \in DOMAIN response.results |->
                                       CleanResult(response.results[i])]]
    /\ beforeSummarize' = response'.results
    /\ pc' = "cleaned"
    /\ UNCHANGED <<args, provided, generatorCalls, content>>

\* lines 108-109: _summarize_content(response)
Summarize ==
    /\ pc = "cleaned"
    /\ args.summarize_content
    /\ generatorCalls' = raw_content_list(response.results)
    /\ response' = [response EXCEPT !.results = summarized_results(response.results)]
    /\ pc' = "summarized"
    /\ UNCHANGED <<args, provided, beforeSummarize, content>>

\* lines 111-128
Format ==
    /\ \/ pc = "summarized"
       \/ pc = "cleaned" /\ ~args.summarize_content
    /\ content' = Formatted(response, args)
    /\ pc' = "done"
    /\ UNCHANGED <<response, args, provided, beforeSummarize, generatorCalls>>

Init == WebInit /\ CleanIdle /\ SqlIdle

Next ==
    \/ Filter /\ UNCHANGED <<cleanVars, sqlVars>>
    \/ CleanResults /\ UNCHANGED <<cleanVars, sqlVars>>
    \/ Summarize /\ UNCHANGED <<cleanVars, sqlVars>>
    \/ Format /\ UNCHANGED <<cleanVars, sqlVars>>

Spec == Init /\ [][Next]_vars

(***************************************************************************)
(* Claims about process_response, checked under Spec                       *)
(***************************************************************************)
Summarized == args.summarize_content /\ pc \in {"summarized", "done"}

Present(opt) == opt # None

AtLeastThreshold(result) == result.score >= args.filter_score

\* The positions of the literal t in a formatted text
PositionsOf(out, t) == {i \in DOMAIN out : out[i] = Lit(t)}

\* Whether a source block (score, url, content) starts at position i of out
BlockAt(out, i) ==
    /\ i + 7 <= Len(out)
    /\ out[i] = Lit("Relevance Score: ")
    /\ out[i + 1].lit = ""
    /\ out[i + 2] = Lit("\n")
    /\ out[i + 3] = Lit("URL: ")
    /\ out[i + 4].lit = ""
    /\ out[i + 5] = Lit("\n")
    /\ out[i + 6] = Lit("Content: ")
    /\ out[i + 7].lit = ""

\* The source blocks of out from position i on, in the order they appear
RECURSIVE BlocksFrom(_, _)
BlocksFrom(out, i) ==
    IF i > Len(out) THEN <<>>
    ELSE IF BlockAt(out, i)
    THEN <<[score |-> out[i + 1].val, url |-> out[i + 4].val,
            content |-> out[i + 7].val]>> \o BlocksFrom(out, i + 8)
    ELSE BlocksFrom(out, i + 1)

\* C1: after the filter step the retained results are exactly the provider's
\* results with score >= filter_score; a score equal to the threshold is kept.
FilterExact ==
    pc # "start" =>
        /\ \A i \in DOMAIN response.results :
              /\ response.results[i].score >= args.filter_score
              /\ \E j \in DOMAIN provided.results :
                    /\ provided.results[j].url = response.results[i].url
                    /\ provided.results[j].score = response.results[i].score
        /\ \A j \in DOMAIN provided.results :
              provided.results[j].score >= args.filter_score =>
                  \E i \in DOMAIN response.results :
                      response.results[i].url = provided.results[j].url
        /\ Len(response.results) <= Len(provided.results)

\* C1 witness: the filter dropped one result and kept one whose score equals
\* the threshold.
FilterExactWitness ==
    /\ pc = "filtered"
    /\ Len(response.results) < Len(provided.results)
    /\ \E i \in DOMAIN response.results :
          response.results[i].score = args.filter_score

\* C2: the returned text holds exactly one source block per result with
\* score >= filter_score, in the provider's order, and none for the others.
BlocksMatchSurvivors ==
    pc = "done" =>
        LET kept == SelectSeq(provided.results, AtLeastThreshold)
            blocks == BlocksFrom(content, 1)
        IN /\ Len(blocks) = Len(kept)
           /\ Cardinality(PositionsOf(content, "Relevance Score: ")) = Len(kept)
           /\ \A k \in DOMAIN kept :
                 /\ blocks[k].score = ScoreText(kept[k].score)
                 /\ blocks[k].url = kept[k].url
                 /\ blocks[k].content = Str(response.results[k].content)
           /\ \A j \in DOMAIN provided.results :
                 provided.results[j].score < args.filter_score =>
                     \A k \in DOMAIN blocks : blocks[k].url # provided.results[j].url

\* C2 witness: scores [0.9, 0.3] with filter_score 0.5 give one block, the
\* first result's.
BlocksMatchSurvivorsWitness ==
    /\ pc = "done"
    /\ args.filter_score = 5
    /\ Len(provided.results) = 2
    /\ provided.results[1].score = 9
    /\ provided.results[2].score = 3
    /\ Len(BlocksFrom(content, 1)) = 1
    /\ BlocksFrom(content, 1)[1].url = Url(1)

\* C6: the generator is called only when summarization is requested, once per
\* surviving result with raw_content present and never for an absent one.
GeneratorOnlyForPresent ==
    /\ ~args.summarize_content => generatorCalls = <<>>
    /\ Summarized =>
          generatorCalls = SelectSeq(raw_content_list(beforeSummarize), Present)

\* C7: after summarization every result with raw_content present carries the
\* generator's output for its own raw_content.
SummaryPairing ==
    Summarized =>
        \A i \in DOMAIN response.results :
            Present(response.results[i].raw_content) =>
                response.results[i].content
                    = Some(Generator(response.results[i].raw_content))

\* C7 witness: an absent raw_content stands before a present one, which
\* carries the summary of its own raw_content.
SummaryPairingWitness ==
    /\ pc = "summarized"
    /\ \E i, j \in DOMAIN response.results :
          /\ i < j
          /\ ~Present(response.results[i].raw_content)
          /\ Present(response.results[j].raw_content)
          /\ response.results[j].content
                = Some(Generator(response.results[j].raw_content))

\* C8: summarization leaves the content of a result with absent raw_content
\* as it was, and neither removes nor reorders results.
SummarizeFrame ==
    Summarized =>
        /\ Len(response.results) = Len(beforeSummarize)
        /\ \A i \in DOMAIN response.results :
              /\ response.results[i].url = beforeSummarize[i].url
              /\ ~Present(response.results[i].raw_content) =>
                    response.results[i].content = beforeSummarize[i].content

\* C8 witness: of two summarized results one has no raw_content and keeps its
\* cleaned content, the other got a summary.
SummarizeFrameWitness ==
    /\ pc = "summarized"
    /\ \E i, j \in DOMAIN response.results :
          /\ ~Present(response.results[i].raw_content)
          /\ Present(response.results[i].content)
          /\ response.results[i].content = beforeSummarize[i].content
          /\ Present(response.results[j].raw_content)
          /\ response.results[j].content # beforeSummarize[j].content

\* C9: without the option the text has no "Suggested Answer" line; with it the
\* text ends with one such line, carrying the answer, after all source blocks.
SuggestedAnswerToggle ==
    pc = "done" =>
        LET at == PositionsOf(content, "Suggested Answer: ")
        IN IF args.suggested_answer
           THEN /\ at = {Len(content) - 1}
                /\ content[Len(content)] = Val(Str(response.answer))
                /\ \A i \in PositionsOf(content, "Relevance Score: ") :
                      i + 7 < Len(content) - 1
           ELSE at = {}

\* C9 witness: the response carries an answer, the option is off, and the
\* text, which has a source block, has no "Suggested Answer" line.
SuggestedAnswerToggleWitness ==
    /\ pc = "done"
    /\ ~args.suggested_answer
    /\ Present(response.answer)
    /\ Len(BlocksFrom(content, 1)) >= 1
    /\ PositionsOf(content, "Suggested Answer: ") = {}

(***************************************************************************)
(* text_to_sql_react: the agent's messages and the reversed trace          *)
(***************************************************************************)
Queries == {"SELECT * FROM Album", "SELECT Name FROM Artist", "SELECT 1"}

\* re.search(r"FROM\s+(\w+)", query, re.IGNORECASE): the match, or None
TableMatch(query) ==
    CASE query = "SELECT * FROM Album" -> Some("Album")
      [] query = "SELECT Name FROM Artist" -> Some("Artist")
      [] OTHER -> None

\* The tool calls one AIMessage may carry, without their ids
ToolChoices ==
    {[name |-> "sql_db_query", args |-> [query |-> q]] : q \in Queries}
        \cup {[name |-> "sql_db_schema", args |-> [table_names |-> "Album"]]}

CallCounts == {1, 2}

HumanMessage == [type |-> "human", content |-> <<"question">>, name |-> "",
                 tool_call_id |-> 0, tool_calls |-> <<>>]

AIMessage(text_, calls) == [type |-> "ai", content |-> text_, name |-> "",
                            tool_call_id |-> 0, tool_calls |-> calls]

\* The tool's output for a call: the rows of the query, or the schema
ToolMessage(call) ==
    [type |-> "tool",
     content |-> IF call.name = "sql_db_query"
                 THEN <<"rows of", call.args.query>>
                 ELSE <<"schema of", call.args.table_names>>,
     name |-> call.name, tool_call_id |-> call.id, tool_calls |-> <<>>]

IsAI(msg) == msg.type = "ai"

IsQueryData(msg) == msg.type = "tool" /\ msg.name = "sql_db_query"

CallsId(msg, id) ==
    /\ msg.type = "ai"
    /\ msg.tool_calls # <<>>
    /\ \E k \in DOMAIN msg.tool_calls : msg.tool_calls[k].id = id

\* next(msg for msg in reversed_messages if ...) on the shared iterator: the
\* last index at or below upto whose message satisfies the test, 0 for None
LastAI(msgs, upto) ==
    LET hits == {i \in 1..upto : IsAI(msgs[i])}
    IN IF hits = {} THEN 0 ELSE CHOOSE i \in hits : \A j \in hits : j <= i

LastQueryData(msgs, upto) ==
    LET hits == {i \in 1..upto : IsQueryData(msgs[i])}
    IN IF hits = {} THEN 0 ELSE CHOOSE i \in hits : \A j \in hits : j <= i

LastCalling(msgs, upto, id) ==
    LET hits == {i \in 1..upto : CallsId(msgs[i], id)}
    IN IF hits = {} THEN 0 ELSE CHOOSE i \in hits : \A j \in hits : j <= i

\* except Exception as e: return f"{e}"
Failed == [status |-> "error", answer |-> <<>>, query |-> "", query_call_id |-> 0,
           table_name |-> "", data |-> <<>>]

\* query_msg.tool_calls[0]["args"], whose "query" key is then read
FirstCallArgs(query_msg) == query_msg.tool_calls[1].args

\* lines 56-80: every "x if not None else ''" takes its first branch, so a
\* search that finds nothing raises on the attribute access
Trace(msgs) ==
    LET answer_at == LastAI(msgs, Len(msgs))
        data_at == LastQueryData(msgs, answer_at - 1)
        query_call_id == msgs[data_at].tool_call_id
        query_at == LastCalling(msgs, data_at - 1, query_call_id)
        query_args == FirstCallArgs(msgs[query_at])
    IN IF answer_at = 0 \/ data_at = 0 THEN Failed
       ELSE IF query_at = 0 THEN Failed
       ELSE IF "query" \notin DOMAIN query_args THEN Failed
       ELSE IF TableMatch(query_args.query) = None THEN Failed
       ELSE [status |-> "ok", answer |-> msgs[answer_at].content,
             query |-> query_args.query, query_call_id |-> query_call_id,
             table_name |-> TableMatch(query_args.query)[1],
             data |-> msgs[data_at].content]

Rounds == Cardinality({i \in DOMAIN messages : messages[i].tool_calls # <<>>})

SqlInit ==
    /\ messages = <<HumanMessage>>
    /\ nextCallId = 1
    /\ report = <<>>
    /\ spc = "agent"

\* The agent's model asks for tools: an AIMessage with one or more tool calls
AgentCallsTools ==
    /\ spc = "agent"
    /\ Rounds < MaxRounds
    /\ \E n \in CallCounts : \E choice \in [1..n -> ToolChoices] :
          /\ messages' = Append(messages,
                 AIMessage(<<>>,
                     [k \in 1..n |-> [id |-> nextCallId + k - 1,
                                      name |-> choice[k].name,
                                      args |-> choice[k].args]]))
          /\ nextCallId' = nextCallId + n
    /\ spc' = "tools"
    /\ UNCHANGED report

\* The tool node answers every call of the last AIMessage, in the calls' order
ToolNode ==
    /\ spc = "tools"
    /\ LET calls == messages[Len(messages)].tool_calls
       IN messages' = messages \o [k \in DOMAIN calls |-> ToolMessage(calls[k])]
    /\ spc' = "agent"
    /\ UNCHANGED <<nextCallId, report>>

\* The agent's model answers: an AIMessage without tool calls ends the run
AgentAnswers ==
    /\ spc = "agent"
    /\ messages' = Append(messages, AIMessage(<<"answer">>, <<>>))
    /\ spc' = "answered"
    /\ UNCHANGED <<nextCallId, report>>

\* text_to_sql_react after agent.invoke
TraceMessages ==
    /\ spc = "answered"
    /\ report' = Trace(messages)
    /\ spc' = "done"
    /\ UNCHANGED <<messages, nextCallId>>

InitSql == SqlInit /\ CleanIdle /\ WebIdle

NextSql ==
    \/ AgentCallsTools /\ UNCHANGED <<cleanVars, webVars>>
    \/ ToolNode /\ UNCHANGED <<cleanVars, webVars>>
    \/ AgentAnswers /\ UNCHANGED <<cleanVars, webVars>>
    \/ TraceMessages /\ UNCHANGED <<cleanVars, webVars>>

SpecSql == InitSql /\ [][NextSql]_vars

(***************************************************************************)
(* Claim about text_to_sql_react, checked under SpecSql                    *)
(***************************************************************************)
\* C10: the query reported is the query argument of the tool call whose id is
\* the tool_call_id of the reported sql_db_query ToolMessage, also when the
\* AIMessage that made the call carries several tool calls.
ReportedQueryMatchesData ==
    spc = "done" /\ report.status = "ok" =>
        \A i \in DOMAIN messages : \A k \in DOMAIN messages[i].tool_calls :
            messages[i].tool_calls[k].id = report.query_call_id =>
                /\ "query" \in DOMAIN messages[i].tool_calls[k].args
                /\ messages[i].tool_calls[k].args.query = report.query

====
